---------------------------- MODULE Spec2Model ----------------------------
(***************************************************************************)
(* The CORD-19 explorer script (src/main.py) as a state machine.           *)
(*                                                                         *)
(* The script is straight-line: it loads a table, imputes missing values   *)
(* (handle_missing), coerces publish_time a second time, stops on an empty *)
(* table, reads two widgets and then runs four aggregations over the one   *)
(* DataFrame object it keeps in metadata_df.                               *)
(*                                                                         *)
(* A DataFrame is [columns |-> sequence of column names,                   *)
(*                 data    |-> column name -> sequence of cells].          *)
(* A cell is one of                                                        *)
(*   [t |-> "nan"]                    a missing value (NaN / None)         *)
(*   [t |-> "nat"]                    a missing timestamp (NaT)            *)
(*   [t |-> "str", s |-> ...]         a Python str                         *)
(*   [t |-> "ts", y, m, d]            a Timestamp (midnight)               *)
(*   [t |-> "num", v |-> ...]         a number                             *)
(* A str whose characters the program inspects (title, publish_time) is a  *)
(* sequence of one-character strings; a str that is only compared as a     *)
(* whole (journal, source_x, license) is a TLA+ string.                    *)
(* A pandas Series of counts is a sequence of [k |-> key, v |-> count].    *)
(***************************************************************************)
EXTENDS Integers, Sequences, FiniteSets, TLC

VARIABLES
    pc,                      \* position in the script
    metadata_df,             \* contents of the one DataFrame object (read_csv's)
    loaded,                  \* its contents when handle_missing was called
    imputed,                 \* its contents when handle_missing returned
    year_range,              \* line 116: the slider's (low, high)
    top_n_journals,          \* line 117: the selectbox's value
    publication_year_counts, \* line 161
    filtered_counts,         \* line 164
    top_journals,            \* line 203
    filtered_words,          \* line 241
    word_counts,             \* line 244
    source_counts            \* line 302

vars == <<pc, metadata_df, loaded, imputed, year_range, top_n_journals,
          publication_year_counts, filtered_counts, top_journals,
          filtered_words, word_counts, source_counts>>

---------------------------------------------------------------------------
(* Bounds of the model. *)

\* rows of a one-column dataset
MaxRows == 3
\* rows of a several-column dataset
MaxRowsWide == 1

---------------------------------------------------------------------------
(* Cells. *)

NaN == [t |-> "nan"]
NaT == [t |-> "nat"]
Str(s) == [t |-> "str", s |-> s]
Num(v) == [t |-> "num", v |-> v]
Timestamp(y, m, d) == [t |-> "ts", y |-> y, m |-> m, d |-> d]

\* pandas isna / notna on one cell
isna(cell) == cell.t \in {"nan", "nat"}
notna(cell) == ~isna(cell)

\* Series.fillna(value), on one cell
fillna(cell, value) == IF isna(cell) THEN value ELSE cell

---------------------------------------------------------------------------
(* Dates: str(Timestamp) and pd.to_datetime(..., errors='coerce'). *)

DigitChars == <<"0", "1", "2", "3", "4", "5", "6", "7", "8", "9">>
IsDigit(c) == \E i \in 1..10 : DigitChars[i] = c
DigitValue(c) == (CHOOSE i \in 1..10 : DigitChars[i] = c) - 1
DigitChar(n) == DigitChars[n + 1]

IsLeap(y) == (y % 4 = 0 /\ y % 100 # 0) \/ y % 400 = 0

\* DaysInMonth without the calendar: any day up to 31 in any month
DaysInMonthAny(y, m) == 31

DaysInMonth(y, m) ==
    IF m = 2 THEN (IF IsLeap(y) THEN 29 ELSE 28)
    ELSE IF m \in {4, 6, 9, 11} THEN 30 ELSE 31

\* FormatDate without the zero padding of month and day
FormatDateNoPad(ts) ==
    << DigitChar(ts.y \div 1000), DigitChar((ts.y \div 100) % 10),
       DigitChar((ts.y \div 10) % 10), DigitChar(ts.y % 10), "-" >>
    \o (IF ts.m >= 10 THEN <<DigitChar(ts.m \div 10)>> ELSE <<>>)
    \o << DigitChar(ts.m % 10), "-" >>
    \o (IF ts.d >= 10 THEN <<DigitChar(ts.d \div 10)>> ELSE <<>>)
    \o << DigitChar(ts.d % 10) >>

\* Series.astype(str) of a datetime64 column whose times are all midnight:
\* "YYYY-MM-DD", zero padded
FormatDate(ts) ==
    << DigitChar(ts.y \div 1000), DigitChar((ts.y \div 100) % 10),
       DigitChar((ts.y \div 10) % 10), DigitChar(ts.y % 10), "-",
       DigitChar(ts.m \div 10), DigitChar(ts.m % 10), "-",
       DigitChar(ts.d \div 10), DigitChar(ts.d % 10) >>

\* The strings to_datetime reads as missing (its nat_strings, and "")
NatStrings == { <<>>, <<"n", "a", "n">>, <<"N", "a", "N">>, <<"N", "a", "T">> }

\* to_datetime of one str: an ISO "YYYY-MM-DD" calendar date or NaT.  The
\* model's strings are ISO dates or no dates at all, which every pandas
\* parses alike whatever format it infers for the column.
ParseDate(s) ==
    IF s \in NatStrings THEN NaT
    ELSE IF /\ Len(s) = 10
            /\ s[5] = "-" /\ s[8] = "-"
            /\ \A i \in {1, 2, 3, 4, 6, 7, 9, 10} : IsDigit(s[i])
    THEN LET y == DigitValue(s[1]) * 1000 + DigitValue(s[2]) * 100
                  + DigitValue(s[3]) * 10 + DigitValue(s[4])
             m == DigitValue(s[6]) * 10 + DigitValue(s[7])
             d == DigitValue(s[9]) * 10 + DigitValue(s[10])
         IN IF m \in 1..12 /\ d >= 1 /\ d <= DaysInMonth(y, m)
            THEN Timestamp(y, m, d) ELSE NaT
    ELSE NaT

\* Series.astype(str), on one cell
astype_str(cell) ==
    CASE cell.t = "str" -> cell
      [] cell.t = "nan" -> Str(<<"n", "a", "n">>)
      [] cell.t = "nat" -> Str(<<"N", "a", "T">>)
      [] cell.t = "ts"  -> Str(FormatDate(cell))

\* pd.to_datetime(series, errors='coerce'), on one cell
to_datetime(cell) ==
    CASE cell.t = "ts"  -> cell
      [] cell.t = "nat" -> NaT
      [] cell.t = "nan" -> NaT
      [] cell.t = "str" -> ParseDate(cell.s)

---------------------------------------------------------------------------
(* DataFrames. *)

ColumnSet(df) == { df.columns[i] : i \in 1..Len(df.columns) }
NRows(df) ==
    IF df.columns = <<>> THEN 0 ELSE Len(df.data[df.columns[1]])
\* DataFrame.empty: no rows or no columns
IsEmpty(df) == NRows(df) = 0

---------------------------------------------------------------------------
(* handle_missing, lines 21-54. *)

NoTitle == <<"N", "o", " ", "T", "i", "t", "l", "e">>
BaselineDate == <<"1", "9", "0", "0", "-", "0", "1", "-", "0", "1">>
UnknownJournal == "Unknown Journal"

\* lines 25-42
replacements ==
    [ title            |-> Str(NoTitle),
      doi              |-> Str("No DOI"),
      pmcid            |-> Str("No PMCID"),
      pubmed_id        |-> Str("No PubMed ID"),
      abstract         |-> Str("No Abstract"),
      publish_time     |-> Str(BaselineDate),
      authors          |-> Str("Unknown Authors"),
      journal          |-> Str(UnknownJournal),
      who_covidence_id |-> Str("No Covidence ID"),
      arxiv_id         |-> Str("No ArXiv ID"),
      pdf_json_files   |-> Str("No PDF JSON"),
      pmc_json_files   |-> Str("No PMC JSON"),
      url              |-> Str("No URL"),
      sha              |-> Str("No SHA"),
      mag_id           |-> Num(0),
      s2_id            |-> Num(0) ]

\* ImputeDate without the fillna
ImputeDateNoFill(cell, value) == to_datetime(astype_str(cell))

\* lines 49-50: astype(str), to_datetime(errors='coerce'), fillna(to_datetime(value))
ImputeDate(cell, value) ==
    fillna(to_datetime(astype_str(cell)), to_datetime(value))

\* lines 47-52: the new contents of one column that has an entry
ImputeColumn(col, cells) ==
    [i \in 1..Len(cells) |->
        IF col = "publish_time"
        THEN ImputeDate(cells[i], replacements[col])
        ELSE fillna(cells[i], replacements[col])]

\* lines 45-54: every column of df that has an entry is rewritten in df itself,
\* the other columns and the column list are left as they are
handle_missing(df) ==
    [df EXCEPT !.data =
        [col \in ColumnSet(df) |->
            IF col \in DOMAIN replacements
            THEN ImputeColumn(col, df.data[col])
            ELSE df.data[col]]]

\* lines 75-76: the loader's second coercion
CoercePublishTime(df) ==
    IF "publish_time" \in ColumnSet(df)
    THEN [df EXCEPT !.data["publish_time"] =
            [i \in 1..Len(@) |-> to_datetime(@[i])]]
    ELSE df

---------------------------------------------------------------------------
(* Series of counts. *)

\* the distinct non-null values of a column, in no order
Keys(cells) == { cells[i] : i \in { j \in 1..Len(cells) : notna(cells[j]) } }
Count(cells, key) == Cardinality({ i \in 1..Len(cells) : cells[i] = key })
FirstIndex(cells, key) == CHOOSE i \in 1..Len(cells) :
    cells[i] = key /\ \A j \in 1..(i - 1) : cells[j] # key

\* the orders of the keys ks by count, largest first: a key of the largest
\* count, then an order of the others
RECURSIVE CountOrders(_, _)
CountOrders(cells, ks) ==
    IF ks = {} THEN {<<>>}
    ELSE LET top == { k \in ks : \A o \in ks : Count(cells, k) >= Count(cells, o) }
         IN UNION { { <<[k |-> k, v |-> Count(cells, k)]>> \o rest :
                        rest \in CountOrders(cells, ks \ {k}) } : k \in top }

\* Series.value_counts(): one entry per distinct non-null value, sorted by count,
\* largest first.  pandas sorts the counts with sort_values' default kind,
\* NumPy's quicksort, which is not a stable sort: the order among values of equal
\* count is whatever the build's sort leaves, so every count-descending order is
\* an outcome.
value_counts(cells) == CountOrders(cells, Keys(cells))

\* Series.sort_index() of a Series whose keys are numbers: ascending keys
sort_index(series) ==
    CHOOSE s \in [1..Len(series) -> { series[i] : i \in 1..Len(series) }] :
        /\ \A i, j \in 1..Len(series) : i # j => s[i] # s[j]
        /\ \A i \in 1..(Len(series) - 1) : s[i].k.v < s[i + 1].k.v

\* Series.head(n): the first n entries; for a negative n all but the last -n
head(series, n) ==
    IF n >= 0
    THEN SubSeq(series, 1, IF n < Len(series) THEN n ELSE Len(series))
    ELSE SubSeq(series, 1, IF Len(series) + n > 0 THEN Len(series) + n ELSE 0)

Total(series) ==
    LET RECURSIVE Sum(_)
        Sum(s) == IF s = <<>> THEN 0 ELSE Head(s).v + Sum(Tail(s))
    IN Sum(series)

---------------------------------------------------------------------------
(* Lines 104-117: the slider's bounds. *)

Min(S) == CHOOSE x \in S : \A y \in S : x <= y
Max(S) == CHOOSE x \in S : \A y \in S : x >= y

ValidYears(df) ==
    { df.data["publish_time"][i].y :
        i \in { j \in 1..NRows(df) : notna(df.data["publish_time"][j]) } }

\* lines 104-114
SliderBounds(df) ==
    IF "publish_time" \in ColumnSet(df) /\ ValidYears(df) # {}
    THEN LET lo == Min(ValidYears(df))
             hi == Max(ValidYears(df))
         IN << IF lo < 1900 THEN 2015 ELSE lo, IF hi > 2030 THEN 2023 ELSE hi >>
    ELSE <<2015, 2023>>

---------------------------------------------------------------------------
(* Lines 152-167: publications per year. *)

\* line 154
valid_dates(df) == [i \in 1..NRows(df) |-> notna(df.data["publish_time"][i])]
any(mask) == \E i \in 1..Len(mask) : mask[i]

\* YearColumn with a 0 in place of the NaN of a record that is no valid date
YearColumnZero(df) ==
    [i \in 1..NRows(df) |->
        IF valid_dates(df)[i] THEN Num(df.data["publish_time"][i].y) ELSE Num(0)]

\* line 158: the year of every valid date, NaN elsewhere
YearColumn(df) ==
    [i \in 1..NRows(df) |->
        IF valid_dates(df)[i] THEN Num(df.data["publish_time"][i].y) ELSE NaN]

\* line 158: metadata_df['year'] = ..., a new last column of the table itself
WithYear(df) ==
    [columns |-> IF "year" \in ColumnSet(df) THEN df.columns
                 ELSE Append(df.columns, "year"),
     data    |-> [col \in ColumnSet(df) \cup {"year"} |->
                    IF col = "year" THEN YearColumn(df) ELSE df.data[col]]]

\* line 161: value_counts().sort_index(); the sort by year undoes whatever order
\* value_counts left among equal counts
YearCounts(df) == sort_index(CHOOSE s \in value_counts(df.data["year"]) : TRUE)

\* FilterYears with > in place of >=
FilterYearsExclusive(counts, range) ==
    LET InRange(e) == e.k.v > range[1] /\ e.k.v <= range[2]
    IN SelectSeq(counts, InRange)

\* lines 164-167
FilterYears(counts, range) ==
    LET InRange(e) == e.k.v >= range[1] /\ e.k.v <= range[2]
    IN SelectSeq(counts, InRange)

---------------------------------------------------------------------------
(* Lines 196-203: top journals. *)

\* line 200
ValidJournals(journal_counts) ==
    LET NotPlaceholder(e) == e.k # Str(UnknownJournal)
    IN SelectSeq(journal_counts, NotPlaceholder)

---------------------------------------------------------------------------
(* Lines 230-245: word frequencies of the titles. *)

LowerChars == <<"a", "b", "c", "d", "e", "f", "g", "h", "i", "j", "k", "l", "m", "n", "o", "p", "q", "r", "s", "t", "u", "v", "w", "x", "y", "z">>
UpperChars == <<"A", "B", "C", "D", "E", "F", "G", "H", "I", "J", "K", "L", "M", "N", "O", "P", "Q", "R", "S", "T", "U", "V", "W", "X", "Y", "Z">>
\* a letter outside a-z, which str.lower() leaves alone and \w matches
OtherWordChars == {"é"}

LowerSet == { LowerChars[i] : i \in 1..26 }
UpperSet == { UpperChars[i] : i \in 1..26 }
DigitSet == { DigitChars[i] : i \in 1..10 }

\* [a-z]
IsLower(c) == c \in LowerSet
IsUpper(c) == c \in UpperSet
\* \w of a str pattern: letters, digits and the underscore
IsWordChar(c) ==
    IsLower(c) \/ IsUpper(c) \/ c \in DigitSet \/ c = "_" \/ c \in OtherWordChars

\* str.lower()
lower(text) ==
    [i \in 1..Len(text) |->
        IF IsUpper(text[i])
        THEN LowerChars[CHOOSE k \in 1..26 : UpperChars[k] = text[i]]
        ELSE text[i]]

\* ' '.join(strings)
RECURSIVE join(_)
join(strings) ==
    IF strings = <<>> THEN <<>>
    ELSE IF Len(strings) = 1 THEN strings[1]
    ELSE strings[1] \o <<" ">> \o join(Tail(strings))

\* line 232
all_titles(df) ==
    lower(join([i \in 1..NRows(df) |-> astype_str(df.data["title"][i]).s]))

\* lines 235-238
stop_words ==
    { <<"t", "h", "e">>,
      <<"a", "n", "d">>,
      <<"o", "f">>,
      <<"i", "n">>,
      <<"t", "o">>,
      <<"a">>,
      <<"f", "o", "r">>,
      <<"o", "n">>,
      <<"w", "i", "t", "h">>,
      <<"b", "y">>,
      <<"a", "n">>,
      <<"a", "t">>,
      <<"f", "r", "o", "m">>,
      <<"a", "s">>,
      <<"i", "s">>,
      <<"a", "r", "e">>,
      <<"t", "h", "i", "s">>,
      <<"t", "h", "a", "t">>,
      <<"t", "h", "e", "s", "e">>,
      <<"t", "h", "o", "s", "e">>,
      <<"b", "e">>,
      <<"w", "a", "s">>,
      <<"w", "e", "r", "e">>,
      <<"h", "a", "s">>,
      <<"h", "a", "v", "e">>,
      <<"h", "a", "d">>,
      <<"b", "u", "t">>,
      <<"o", "r">>,
      <<"n", "o", "t">>,
      <<"n", "o">>,
      <<"y", "e", "s">>,
      <<"c", "o", "v", "i", "d">>,
      <<"1", "9">>,
      <<"s", "a", "r", "s">>,
      <<"c", "o", "v">>,
      <<"2">>,
      <<"c", "o", "r", "o", "n", "a", "v", "i", "r", "u", "s">> }

\* line 240: the {3,} of the pattern
MinWordLen == 3

\* \b before position p (1..Len+1): exactly one of the characters p-1 and p
\* is a word character
AtBoundary(text, p) ==
    LET W(i) == i >= 1 /\ i <= Len(text) /\ IsWordChar(text[i])
    IN W(p - 1) # W(p)

\* the last position of the run of [a-z] that starts at i (i - 1 if none)
RECURSIVE RunEnd(_, _)
RunEnd(text, i) ==
    IF i <= Len(text) /\ IsLower(text[i]) THEN RunEnd(text, i + 1) ELSE i - 1

\* MatchEnd for the pattern [a-z]{3,}, without the two \b
MatchEndNoBoundary(text, i) ==
    IF RunEnd(text, i) >= i + MinWordLen - 1 THEN RunEnd(text, i) ELSE 0

\* where a match of \b[a-z]{3,}\b that starts at i ends, 0 if there is none:
\* the quantifier is greedy and gives characters back until \b holds
MatchEnd(text, i) ==
    LET ends == { j \in (i + MinWordLen - 1)..RunEnd(text, i) :
                    AtBoundary(text, j + 1) }
    IN IF AtBoundary(text, i) /\ ends # {} THEN Max(ends) ELSE 0

\* re.findall(r'\b[a-z]{3,}\b', text) from position i on: leftmost matches,
\* each search resuming where the last match ended
RECURSIVE FindAllFrom(_, _)
FindAllFrom(text, i) ==
    IF i > Len(text) THEN <<>>
    ELSE LET end == MatchEnd(text, i)
         IN IF end = 0 THEN FindAllFrom(text, i + 1)
            ELSE <<SubSeq(text, i, end)>> \o FindAllFrom(text, end + 1)

\* line 240
findall(text) == FindAllFrom(text, 1)

\* line 241
FilterStopWords(words) ==
    LET NotStop(w) == w \notin stop_words
    IN SelectSeq(words, NotStop)

\* line 244: Counter(words)
Counter(words) ==
    [w \in { words[i] : i \in 1..Len(words) } |->
        Cardinality({ i \in 1..Len(words) : words[i] = w })]

---------------------------------------------------------------------------
(* Lines 297-302: papers by source. *)

\* 'source' in col.lower(), over the column names of the model
HasSource(col) == col \in {"source_x", "Source_DB"}

\* line 297
source_columns(df) ==
    LET Has(col) == HasSource(col)
    IN SelectSeq(df.columns, Has)

---------------------------------------------------------------------------
(* The datasets the model loads: what read_csv may hand to the script. *)

RawTitles ==
    { NaN,
      Str(<<>>),
      Str(<<"T", "h", "e", " ", "f", "l", "u">>),
      Str(<<"F", "l", "u", "2", "0", "2", "0", " ", "a", "n", "d", " ", "f", "l", "u">>),
      Str(<<"C", "O", "V", "I", "D", "-", "1", "9", " ", "f", "l", "u">>),
      Str(<<"f", "l", "u", "_", "a", " ", "v", "i", "r", "u", "s">>),
      Str(<<"c", "a", "f", "é", " ", "f", "l", "u">>),
      Str(<<"o", "f", " ", "i", "n", " ", "t", "o">>),
      Str(<<"C", "O", "V", "I", "D", "-", "1", "9", " ", "v", "a", "c", "c", "i", "n", "e", " ", "s", "t", "u", "d", "y", " ", "o", "f", " ", "S", "A", "R", "S", "-", "C", "o", "V", "-", "2", " ", "i", "m", "m", "u", "n", "i", "t", "y">>) }
RawDates ==
    { NaN, Str(<<>>), Str(<<"n", "o", "t", "-", "a", "-", "d", "a", "t", "e">>),
      Str(<<"2", "0", "2", "0", "-", "0", "3", "-", "1", "5">>), Str(<<"2", "0", "1", "9", "-", "0", "2", "-", "2", "9">>),
      Str(<<"2", "0", "2", "1", "-", "0", "7", "-", "0", "4">>) }
RawJournals == { NaN, Str(UnknownJournal), Str("Lancet"), Str("BMJ") }
RawSources == { NaN, Str("PMC"), Str("WHO") }
RawMagIds == { NaN, Num(7) }
RawLicenses == { NaN, Str("cc-by") }

\* journal columns with more journals than the selectbox's smallest option
ManyJournals ==
    { <<Str("J1"), Str("J2"), Str("J2"), Str("J3"), Str("J4"), Str("J5"), Str("J6")>>,
      <<Str(UnknownJournal), Str("J1"), Str("J2"), NaN, Str("J3"), Str("J3"),
        Str("J4"), Str("J5"), Str("J6")>> }

\* a dataset of one column
OneColumn(col, values, n) ==
    { [columns |-> <<col>>, data |-> (col :> cells)] : cells \in [1..n -> values] }

\* a dataset of the six columns, in the order of the CORD-19 table
WideColumns == <<"source_x", "title", "license", "publish_time", "journal", "mag_id">>
Wide(n) ==
    { [columns |-> WideColumns, data |-> d] :
        d \in [ source_x     : [1..n -> {NaN, Str("PMC")}],
                title        : [1..n -> {NaN, Str(<<"T", "h", "e", " ", "f", "l", "u">>)}],
                license      : [1..n -> RawLicenses],
                publish_time : [1..n -> {NaN, Str(<<"n", "o", "t", "-", "a", "-", "d", "a", "t", "e">>),
                                         Str(<<"2", "0", "2", "0", "-", "0", "3", "-", "1", "5">>)}],
                journal      : [1..n -> {NaN, Str("Lancet")}],
                mag_id       : [1..n -> RawMagIds] ] }

\* two columns whose names hold "source"
TwoSources(n) ==
    { [columns |-> <<"Source_DB", "source_x">>, data |-> d] :
        d \in [ Source_DB : [1..n -> {NaN, Str("WHO")}],
                source_x  : [1..n -> {NaN, Str("PMC")}] ] }

Datasets ==
    {[columns |-> <<>>, data |-> <<>>]}
    \cup UNION { OneColumn("title", RawTitles, n) \cup
                 OneColumn("publish_time", RawDates, n) \cup
                 OneColumn("journal", RawJournals, n) \cup
                 OneColumn("source_x", RawSources, n) \cup
                 OneColumn("mag_id", RawMagIds, n) \cup
                 OneColumn("license", RawLicenses, n) : n \in 0..MaxRows }
    \cup UNION { Wide(n) \cup TwoSources(n) : n \in 0..MaxRowsWide }
    \cup { [columns |-> <<"journal">>, data |-> ("journal" :> cells)] :
             cells \in ManyJournals }

---------------------------------------------------------------------------
(* The script. *)

NoSeries == <<>>

Init ==
    /\ pc = "handle_missing"
    /\ metadata_df \in Datasets
    /\ loaded = metadata_df
    /\ imputed = metadata_df
    /\ year_range = <<>>
    /\ top_n_journals = 0
    /\ publication_year_counts = NoSeries
    /\ filtered_counts = NoSeries
    /\ top_journals = NoSeries
    /\ filtered_words = <<>>
    /\ word_counts = <<>>
    /\ source_counts = NoSeries

\* line 72: handle_missing writes into the DataFrame it is given and returns it
HandleMissing ==
    /\ pc = "handle_missing"
    /\ metadata_df' = handle_missing(metadata_df)
    /\ loaded' = metadata_df
    /\ imputed' = metadata_df'
    /\ pc' = "coerce"
    /\ UNCHANGED <<year_range, top_n_journals, publication_year_counts,
                   filtered_counts, top_journals, filtered_words, word_counts,
                   source_counts>>

\* lines 75-78
Coerce ==
    /\ pc = "coerce"
    /\ metadata_df' = CoercePublishTime(metadata_df)
    /\ pc' = "loaded"
    /\ UNCHANGED <<loaded, imputed, year_range, top_n_journals,
                   publication_year_counts, filtered_counts, top_journals,
                   filtered_words, word_counts, source_counts>>

\* lines 86-91: st.stop() on an empty table
CheckLoaded ==
    /\ pc = "loaded"
    /\ pc' = IF IsEmpty(metadata_df) THEN "stopped" ELSE "widgets"
    /\ UNCHANGED <<metadata_df, loaded, imputed, year_range, top_n_journals,
                   publication_year_counts, filtered_counts, top_journals,
                   filtered_words, word_counts, source_counts>>

\* line 116: what the slider may return, low <= high within its bounds.  The
\* model tries the slider's default (the bounds themselves) and, for a table of
\* the publish_time column alone, the positions YearStops.
YearStops == {1900, 1950, 2020}
SliderChoices(df) ==
    LET lo == SliderBounds(df)[1]
        hi == SliderBounds(df)[2]
        stops == IF df.columns = <<"publish_time">>
                 THEN { y \in YearStops \cup {lo, hi} : lo <= y /\ y <= hi }
                 ELSE {}
    IN {<<lo, hi>>} \cup { r \in stops \X stops : r[1] <= r[2] }

\* line 117: the selectbox's options, and its default (index=1)
TopNOptions == {5, 10, 15, 20}
TopNDefault == 10

\* lines 104-117.  The selectbox returns one of its options; the model tries
\* them all for a table of the journal column alone, and the default for the
\* others.
Widgets ==
    /\ pc = "widgets"
    /\ year_range' \in SliderChoices(metadata_df)
    /\ top_n_journals' \in
          (IF metadata_df.columns = <<"journal">> THEN TopNOptions ELSE {TopNDefault})
    /\ pc' = "years"
    /\ UNCHANGED <<metadata_df, loaded, imputed, publication_year_counts,
                   filtered_counts, top_journals, filtered_words, word_counts,
                   source_counts>>

\* lines 152-167
Years ==
    /\ pc = "years"
    /\ IF "publish_time" \in ColumnSet(metadata_df) /\ any(valid_dates(metadata_df))
       THEN /\ metadata_df' = WithYear(metadata_df)
            /\ publication_year_counts' = YearCounts(metadata_df')
            /\ filtered_counts' = FilterYears(publication_year_counts', year_range)
       ELSE UNCHANGED <<metadata_df, publication_year_counts, filtered_counts>>
    /\ pc' = "journals"
    /\ UNCHANGED <<loaded, imputed, year_range, top_n_journals, top_journals,
                   filtered_words, word_counts, source_counts>>

\* lines 196-203
Journals ==
    /\ pc = "journals"
    /\ IF "journal" \in ColumnSet(metadata_df)
       THEN \E journal_counts \in value_counts(metadata_df.data["journal"]) :
              top_journals' =
                 IF Len(ValidJournals(journal_counts)) > 0
                 THEN head(ValidJournals(journal_counts), top_n_journals)
                 ELSE top_journals
       ELSE UNCHANGED top_journals
    /\ pc' = "words"
    /\ UNCHANGED <<metadata_df, loaded, imputed, year_range, top_n_journals,
                   publication_year_counts, filtered_counts, filtered_words,
                   word_counts, source_counts>>

\* lines 230-245
Words ==
    /\ pc = "words"
    /\ IF "title" \in ColumnSet(metadata_df)
       THEN /\ filtered_words' = FilterStopWords(findall(all_titles(metadata_df)))
            /\ word_counts' = IF filtered_words' # <<>>
                              THEN Counter(filtered_words') ELSE word_counts
       ELSE UNCHANGED <<filtered_words, word_counts>>
    /\ pc' = "sources"
    /\ UNCHANGED <<metadata_df, loaded, imputed, year_range, top_n_journals,
                   publication_year_counts, filtered_counts, top_journals,
                   source_counts>>

\* lines 297-302
Sources ==
    /\ pc = "sources"
    /\ IF source_columns(metadata_df) # <<>>
       THEN source_counts' \in
               value_counts(metadata_df.data[source_columns(metadata_df)[1]])
       ELSE UNCHANGED source_counts
    /\ pc' = "done"
    /\ UNCHANGED <<metadata_df, loaded, imputed, year_range, top_n_journals,
                   publication_year_counts, filtered_counts, top_journals,
                   filtered_words, word_counts>>

Next ==
    \/ HandleMissing
    \/ Coerce
    \/ CheckLoaded
    \/ Widgets
    \/ Years
    \/ Journals
    \/ Words
    \/ Sources

Spec == Init /\ [][Next]_vars

\* Lines 154-161 as the function of the table that they are, applied to tables
\* whose publish_time holds NaT beside dates.  No run of the script hands them
\* such a table (lines 50 and 76 leave no NaT), so these are applications of the
\* computation to its possible arguments and not positions of the script.
PartialDates ==
    { NaT, Timestamp(1900, 1, 1), Timestamp(2020, 3, 15), Timestamp(2021, 7, 4) }

InitYearCounts ==
    /\ pc = "year_counts"
    /\ metadata_df \in UNION { OneColumn("publish_time", PartialDates, n) :
                                 n \in 0..MaxRows }
    /\ loaded = metadata_df
    /\ imputed = metadata_df
    /\ year_range = <<>>
    /\ top_n_journals = 0
    /\ publication_year_counts = NoSeries
    /\ filtered_counts = NoSeries
    /\ top_journals = NoSeries
    /\ filtered_words = <<>>
    /\ word_counts = <<>>
    /\ source_counts = NoSeries

\* lines 154-161
ApplyYearCounts ==
    /\ pc = "year_counts"
    /\ IF any(valid_dates(metadata_df))
       THEN /\ metadata_df' = WithYear(metadata_df)
            /\ publication_year_counts' = YearCounts(metadata_df')
       ELSE UNCHANGED <<metadata_df, publication_year_counts>>
    /\ pc' = "year_counts_done"
    /\ UNCHANGED <<loaded, imputed, year_range, top_n_journals, filtered_counts,
                   top_journals, filtered_words, word_counts, source_counts>>

SpecYearCounts == InitYearCounts /\ [][ApplyYearCounts]_vars

---------------------------------------------------------------------------
(* The claims. *)

Baseline == Timestamp(1900, 1, 1)
HasColumn(col) == col \in ColumnSet(metadata_df)
AfterYears == pc \in {"journals", "words", "sources", "done"}
AfterJournals == pc \in {"words", "sources", "done"}
AfterWords == pc \in {"sources", "done"}

\* C1: imputation is idempotent: handle_missing applied to the table that
\* handle_missing returned gives that table back, value for value.
C1_Idempotent ==
    pc # "handle_missing" => handle_missing(imputed) = imputed

\* a table with a parsed date, a date filled with the baseline and a filled title
C1_Witness ==
    /\ pc = "coerce"
    /\ ColumnSet(imputed) = ColumnSet(loaded)
    /\ "publish_time" \in ColumnSet(imputed)
    /\ "title" \in ColumnSet(imputed)
    /\ \E i \in 1..NRows(imputed) :
          /\ loaded.data["title"][i] = NaN
          /\ imputed.data["title"][i] = Str(NoTitle)
          /\ imputed.data["publish_time"][i] = Timestamp(2020, 3, 15)
    /\ handle_missing(imputed) = imputed

\* C2: after handle_missing no column that is present and has an entry in
\* replacements holds a null; a column with no entry is as it was loaded; the
\* column list is the loaded one (no column is created).
C2_DefaultCoverage ==
    pc # "handle_missing" =>
        /\ imputed.columns = loaded.columns
        /\ DOMAIN imputed.data = ColumnSet(loaded)
        /\ \A col \in ColumnSet(imputed) :
              IF col \in DOMAIN replacements
              THEN /\ Len(imputed.data[col]) = Len(loaded.data[col])
                   /\ \A i \in 1..Len(imputed.data[col]) : notna(imputed.data[col][i])
              ELSE imputed.data[col] = loaded.data[col]

\* a null mag_id was filled while a null license stayed null
C2_Witness ==
    /\ pc = "coerce"
    /\ {"mag_id", "license", "publish_time"} \subseteq ColumnSet(imputed)
    /\ ColumnSet(loaded) = ColumnSet(imputed)
    /\ \E i \in 1..NRows(imputed) :
          /\ loaded.data["mag_id"][i] = NaN
          /\ imputed.data["mag_id"][i] = Num(0)
          /\ loaded.data["publish_time"][i] = NaN
          /\ notna(imputed.data["publish_time"][i])
          /\ loaded.data["license"][i] = NaN
          /\ imputed.data["license"][i] = NaN

\* the raw publish_time values of the model that are missing, empty or no date
MissingOrMalformed ==
    { NaN, Str(<<>>), Str(<<"n", "o", "t", "-", "a", "-", "d", "a", "t", "e">>),
      Str(<<"2", "0", "1", "9", "-", "0", "2", "-", "2", "9">>) }

\* C3: a record whose raw publish_time is null, empty or no date holds the
\* baseline date 1900-01-01 after imputation, and still after the loader's
\* second coercion; null and unparseable resolve alike.
C3_DateFallback ==
    (pc # "handle_missing" /\ "publish_time" \in ColumnSet(loaded)) =>
        \A i \in 1..NRows(loaded) :
            loaded.data["publish_time"][i] \in MissingOrMalformed =>
                /\ imputed.data["publish_time"][i] = Baseline
                /\ pc # "coerce" => metadata_df.data["publish_time"][i] = Baseline

\* after the second coercion: a null, an unparseable and a valid raw date
C3_Witness ==
    /\ pc = "loaded"
    /\ "publish_time" \in ColumnSet(loaded)
    /\ \E i, j, k \in 1..NRows(loaded) :
          /\ loaded.data["publish_time"][i] = NaN
          /\ loaded.data["publish_time"][j] = Str(<<"n", "o", "t", "-", "a", "-", "d", "a", "t", "e">>)
          /\ metadata_df.data["publish_time"][i] = Baseline
          /\ metadata_df.data["publish_time"][j] = Baseline
          /\ metadata_df.data["publish_time"][k] = Timestamp(2021, 7, 4)

\* C4 (as claimed): when handle_missing has returned, the DataFrame object the
\* caller passed in holds the values it held before the call.
C4_InputUntouched ==
    pc = "coerce" => metadata_df = loaded

ValidRows(df) ==
    { i \in 1..NRows(df) : notna(df.data["publish_time"][i]) }

\* C5: once lines 154-161 have run, in the script or on a table of their own,
\* the counts of publication_year_counts add up to the number of records whose
\* publish_time is a date, each year's count is the number of such records of
\* that year, no year is listed twice, and a record whose publish_time is NaT
\* has no year and is counted in none.
C5_YearCountConservation ==
    ((AfterYears \/ pc = "year_counts_done") /\ HasColumn("publish_time")) =>
        /\ Total(publication_year_counts) = Cardinality(ValidRows(metadata_df))
        /\ \A n \in 1..Len(publication_year_counts) :
              publication_year_counts[n].v =
                 Cardinality({ i \in ValidRows(metadata_df) :
                     metadata_df.data["publish_time"][i].y
                        = publication_year_counts[n].k.v })
        /\ \A m, n \in 1..Len(publication_year_counts) :
              m # n => publication_year_counts[m].k # publication_year_counts[n].k
        /\ HasColumn("year") =>
              \A i \in 1..NRows(metadata_df) :
                  isna(metadata_df.data["publish_time"][i])
                      <=> isna(metadata_df.data["year"][i])

\* three records, one of them NaT and two of one year: the two are counted and
\* the NaT record is in no year
C5_Witness ==
    /\ pc = "year_counts_done"
    /\ NRows(metadata_df) = 3
    /\ Cardinality(ValidRows(metadata_df)) = 2
    /\ \E i \in 1..NRows(metadata_df) :
          /\ metadata_df.data["publish_time"][i] = NaT
          /\ metadata_df.data["year"][i] = NaN
    /\ publication_year_counts = <<[k |-> Num(2020), v |-> 2]>>

\* C6: every key of filtered_counts lies in the slider's range and is an entry
\* of publication_year_counts with its count; every entry of
\* publication_year_counts whose year lies in the range is kept; a range that
\* holds no counted year gives the empty Series.
C6_RangeFilter ==
    (AfterYears /\ publication_year_counts # NoSeries) =>
        LET all  == { publication_year_counts[i] : i \in 1..Len(publication_year_counts) }
            kept == { filtered_counts[i] : i \in 1..Len(filtered_counts) }
            InRange(e) == year_range[1] <= e.k.v /\ e.k.v <= year_range[2]
        IN /\ kept = { e \in all : InRange(e) }
           /\ Len(filtered_counts) = Cardinality(kept)
           /\ (\A e \in all : ~InRange(e)) => filtered_counts = <<>>

\* one year kept with its count and one year dropped
C6_Witness ==
    /\ pc = "journals"
    /\ Len(publication_year_counts) = 2
    /\ filtered_counts = <<[k |-> Num(2020), v |-> 2]>>
    /\ year_range = <<1950, 2020>>

\* the reference ranking: count descending, equal counts in the order of first
\* appearance in the column
ReferenceRanking(cells) ==
    CHOOSE s \in value_counts(cells) :
        \A i \in 1..(Len(s) - 1) :
            s[i].v = s[i + 1].v =>
                FirstIndex(cells, s[i].k) < FirstIndex(cells, s[i + 1].k)

\* C7 (as claimed): top_journals is the first top_n_journals entries of the
\* reference ranking with "Unknown Journal" removed.
C7_ReferenceTopN ==
    (AfterJournals /\ HasColumn("journal")
       /\ ValidJournals(ReferenceRanking(metadata_df.data["journal"])) # <<>>) =>
        top_journals =
            head(ValidJournals(ReferenceRanking(metadata_df.data["journal"])),
                 top_n_journals)

\* What lines 196-203 do give whatever the order among equal counts: top_journals
\* lists distinct journals other than "Unknown Journal" with their counts, largest
\* count first, as many as there are up to top_n_journals, and no journal left
\* out has a larger count than one listed.
TopJournalsCountOrdered ==
    (AfterJournals /\ HasColumn("journal")) =>
        LET cells == metadata_df.data["journal"]
            valid == Keys(cells) \ {Str(UnknownJournal)}
            shown == { top_journals[i].k : i \in 1..Len(top_journals) }
        IN /\ shown \subseteq valid
           /\ Cardinality(shown) = Len(top_journals)
           /\ Len(top_journals) = IF top_n_journals < Cardinality(valid)
                                  THEN top_n_journals ELSE Cardinality(valid)
           /\ \A i \in 1..Len(top_journals) :
                 top_journals[i].v = Count(cells, top_journals[i].k)
           /\ \A i \in 1..(Len(top_journals) - 1) :
                 top_journals[i].v >= top_journals[i + 1].v
           /\ \A k \in valid \ shown : \A i \in 1..Len(top_journals) :
                 Count(cells, k) <= top_journals[i].v

IsLetter(c) == IsLower(c) \/ IsUpper(c) \/ c \in OtherWordChars

\* the occurrences (i, j) of a maximal run of letters of at least MinWordLen
\* characters: it starts after a character that is no letter, ends before one,
\* and holds letters only
LetterRuns(text) ==
    LET starts == { i \in 1..Len(text) :
                      IsLetter(text[i]) /\ (i = 1 \/ ~IsLetter(text[i - 1])) }
        ends   == { j \in 1..Len(text) :
                      IsLetter(text[j]) /\ (j = Len(text) \/ ~IsLetter(text[j + 1])) }
    IN { r \in starts \X ends :
           /\ r[2] - r[1] + 1 >= MinWordLen
           /\ \A k \in r[1]..r[2] : IsLetter(text[k]) }

\* the occurrences (i, j) of a run of a-z of at least MinWordLen characters
\* with no letter, digit or underscore on either side
DelimitedRuns(text) ==
    LET starts == { i \in 1..Len(text) :
                      IsLower(text[i]) /\ (i = 1 \/ ~IsWordChar(text[i - 1])) }
        ends   == { j \in 1..Len(text) :
                      IsLower(text[j]) /\ (j = Len(text) \/ ~IsWordChar(text[j + 1])) }
    IN { r \in starts \X ends :
           /\ r[2] - r[1] + 1 >= MinWordLen
           /\ \A k \in r[1]..r[2] : IsLower(text[k]) }

\* the frequency mapping of the runs that are no stop word
Frequencies(text, runs) ==
    LET kept == { r \in runs : SubSeq(text, r[1], r[2]) \notin stop_words }
    IN [w \in { SubSeq(text, r[1], r[2]) : r \in kept } |->
          Cardinality({ r \in kept : SubSeq(text, r[1], r[2]) = w })]

\* C8 (as claimed): word_counts counts exactly the maximal runs of letters of
\* the lower-cased titles that have at least MinWordLen letters and are no stop
\* word.
C8_MaximalLetterRuns ==
    (AfterWords /\ HasColumn("title")) =>
        word_counts = Frequencies(all_titles(metadata_df),
                                  LetterRuns(all_titles(metadata_df)))

\* C8 (amended): word_counts counts exactly the runs of a-z of at least
\* MinWordLen letters that have no letter, digit or underscore on either side
\* and are no stop word; so no key holds a digit or punctuation, none is
\* shorter than MinWordLen, none is a stop word, and titles whose tokens are all
\* filtered out give the empty mapping.
C8_DelimitedRuns ==
    (AfterWords /\ HasColumn("title")) =>
        /\ word_counts = Frequencies(all_titles(metadata_df),
                                     DelimitedRuns(all_titles(metadata_df)))
        /\ \A w \in DOMAIN word_counts :
              /\ Len(w) >= MinWordLen
              /\ \A k \in 1..Len(w) : IsLower(w[k])
              /\ w \notin stop_words
              /\ word_counts[w] >= 1

\* titles with a run of letters next to digits, which is not counted, and the
\* same word standing alone, which is
C8_Witness ==
    /\ pc = "sources"
    /\ HasColumn("title")
    /\ \E i \in 1..NRows(metadata_df) :
          metadata_df.data["title"][i] =
             Str(<<"F", "l", "u", "2", "0", "2", "0", " ", "a", "n", "d", " ", "f", "l", "u">>)
    /\ \E i \in 1..NRows(metadata_df) : loaded.data["title"][i] = NaN
    /\ word_counts = (<<"f", "l", "u">> :> 1 @@ <<"t", "i", "t", "l", "e">> :> 1)

\* C9 (as claimed): once the aggregations run, the table has the columns and
\* the values it had when imputation returned.
C9_AggregatorsReadOnly ==
    AfterYears => metadata_df = imputed

\* The value the ranking is handed is always one of the selectbox's options:
\* the script has no path on which lines 196-203 see another n, a negative one
\* included, and the minimum word length is the literal of the pattern.
TopNFromSelectbox ==
    pc \notin {"handle_missing", "coerce", "loaded", "stopped", "widgets"} =>
        top_n_journals \in TopNOptions

=====
